---------------------------- MODULE Spec2Model ----------------------------
(***************************************************************************)
(* BedrockHole: a TCP reverse tunnel behind a NAT.                         *)
(*                                                                         *)
(*   main.rs            the orchestrator: WAN_ADDR, startup sequence       *)
(*   stun.rs            the STUN maintainer (stun_loop, parse_addr) and    *)
(*                      the listener that stun::run registers              *)
(*   forward.rs         the forwarder listener with the heartbeat demux    *)
(*                      and the heartbeat responder                        *)
(*   ddns/cloudflare.rs the DDNS publisher (update_srv)                    *)
(*                                                                         *)
(* Every process is a program counter plus the locals of its task; one     *)
(* action is one await point (or one synchronous stretch) of the code.     *)
(***************************************************************************)
EXTENDS Integers, Sequences, FiniteSets, TLC

(***************************************************************************)
(* Bounds of the model.                                                    *)
(***************************************************************************)
\* accept failures that are counted (the loop itself is unbounded)
MaxAcceptErrs == 1
\* spawned tasks (player sessions and heartbeat responders) alive at the
\* same time
MaxSessions == 2
\* writes to one upstream connection that are followed
MaxWritten == 2
\* records of one type the zone holds at one name
MaxRecords == 2
\* attributes a Binding Response carries before XOR-MAPPED-ADDRESS
MaxPreceding == 2
\* messages a heartbeat client sends after the one the accept loop peeked
MaxProbes == 2

(***************************************************************************)
(* Program constants.                                                      *)
(***************************************************************************)
STUN_MAGIC_COOKIE == 554869826
ATTR_XOR_MAPPED_ADDRESS == 32
\* let mut response = [0u8; 1024]
RESPONSE_LEN == 1024
\* heartbeat_server: let mut buf = [0u8; 64]
HB_BUF_LEN == 64

(***************************************************************************)
(* Bytes and words.                                                        *)
(***************************************************************************)
RECURSIVE BitXor(_, _)
BitXor(a, b) ==
    IF a = 0 THEN b
    ELSE IF b = 0 THEN a
    ELSE (((a % 2) + (b % 2)) % 2) + (2 * BitXor(a \div 2, b \div 2))

\* u16::from_be_bytes([hi, lo])
MutU16FromBe(hi, lo) == lo * 256 + hi
U16FromBe(hi, lo) == hi * 256 + lo

\* u32::to_be_bytes
U32ToBe(w) ==
    << (w \div 16777216) % 256, (w \div 65536) % 256, (w \div 256) % 256, w % 256 >>

Zeros(n) == [i \in 1..n |-> 0]

(***************************************************************************)
(* Option<T> is a set with at most one element.                            *)
(***************************************************************************)
None == {}
Some(x) == {x}

(***************************************************************************)
(* stun.rs: parse_addr.  buf is 1-indexed here, pos is the code's 0-based  *)
(* offset, so the code's buf[i] is buf[i + 1].  An index past the end of   *)
(* the slice is a panic.  The while loop is a scan state and its body:     *)
(* "scan" while the loop runs, then "ok" (return Ok), "err" (the Err after *)
(* the loop) or "panic".                                                   *)
(***************************************************************************)
Scan(pos)   == [kind |-> "scan", pos |-> pos, ip |-> << >>, port |-> 0]
ParseErr    == [kind |-> "err", pos |-> 0, ip |-> << >>, port |-> 0]
ParsePanic  == [kind |-> "panic", pos |-> 0, ip |-> << >>, port |-> 0]
ParseOk(ip, port) == [kind |-> "ok", pos |-> 0, ip |-> ip, port |-> port]

\* the bounds check of the attribute's payload: buf[pos + 2] .. buf[pos + 7]
\* are read without one, so the last of them must lie inside the slice
MutPayloadInBounds(buf, p) == TRUE
PayloadInBounds(buf, p) == p + 7 < Len(buf)

\* one evaluation of the loop condition and, when it holds, of the loop body
ParseStep(buf, st) ==
    IF st.kind # "scan" THEN st
    ELSE IF st.pos + 4 <= Len(buf)
    THEN LET attr_type == U16FromBe(buf[st.pos + 1], buf[st.pos + 2])
             attr_len  == U16FromBe(buf[st.pos + 3], buf[st.pos + 4])
             p         == st.pos + 4
         IN  IF attr_type = ATTR_XOR_MAPPED_ADDRESS
             THEN IF ~PayloadInBounds(buf, p)
                  THEN ParsePanic
                  ELSE LET x_port   == U16FromBe(buf[p + 3], buf[p + 4])
                           mc_bytes == U32ToBe(STUN_MAGIC_COOKIE)
                       IN  ParseOk(<< BitXor(buf[p + 5], mc_bytes[1]),
                                      BitXor(buf[p + 6], mc_bytes[2]),
                                      BitXor(buf[p + 7], mc_bytes[3]),
                                      BitXor(buf[p + 8], mc_bytes[4]) >>,
                                   BitXor(x_port, STUN_MAGIC_COOKIE \div 65536))
             ELSE Scan(p + attr_len)
    ELSE ParseErr

\* n evaluations of ParseStep in a row
RECURSIVE ParseSteps(_, _, _)
ParseSteps(buf, st, n) ==
    IF n <= 1 THEN ParseStep(buf, st)
    ELSE LET mid == ParseSteps(buf, st, n \div 2)
         IN  IF mid.kind # "scan" THEN mid
             ELSE ParseSteps(buf, mid, n - (n \div 2))

\* every turn of the loop advances pos by 4 or more, so Len(buf) turns end it
parse_addr(buf) ==
    IF Len(buf) < 20
    THEN ParseErr
    ELSE ParseSteps(buf, Scan(20), Len(buf))

(***************************************************************************)
(* The STUN server's side: the bytes a read can put into the response      *)
(* buffer.  The buffer is zeroed before every read and parse_addr is       *)
(* handed all of it, whatever the read returned.                           *)
(***************************************************************************)
Addr(ip, port) == [ip |-> ip, port |-> port]

P1 == Addr(<<203, 0, 113, 7>>, 19132)
P2 == Addr(<<198, 51, 100, 9>>, 40000)

StunHeader(len) ==
    <<1, 1, len \div 256, len % 256>> \o U32ToBe(STUN_MAGIC_COOKIE)
        \o <<170, 170, 170, 170, 170, 170, 170, 170, 170, 170, 170, 170>>

XorMappedAttr(a) ==
    LET xp == BitXor(a.port, STUN_MAGIC_COOKIE \div 65536)
        mc == U32ToBe(STUN_MAGIC_COOKIE)
    IN  <<0, 32, 0, 8, 0, 1, xp \div 256, xp % 256,
          BitXor(a.ip[1], mc[1]), BitXor(a.ip[2], mc[2]),
          BitXor(a.ip[3], mc[3]), BitXor(a.ip[4], mc[4])>>

BindingResponse(a) == StunHeader(12) \o XorMappedAttr(a)

\* a response without the attribute
NoAttrResponse == StunHeader(0)

\* an unknown attribute of 996 bytes, then an XOR-MAPPED-ADDRESS attribute
\* header in the last four bytes of the buffer
TailAttrResponse ==
    StunHeader(1004) \o <<128, 34, 3, 228>> \o Zeros(996) \o <<0, 32, 0, 8>>

\* what the read left in the buffer: data, then the zeros it started with
ResponseBuffer(data) == data \o Zeros(RESPONSE_LEN - Len(data))

Responses ==
    { BindingResponse(P1), BindingResponse(P2), NoAttrResponse, << >>,
      TailAttrResponse }

(***************************************************************************)
(* ddns/cloudflare.rs: names and payloads.                                 *)
(***************************************************************************)
Domain == <<"example", "com">>
SubDomains == {"", "@", "mc"}

Name(labels) == [kind |-> "name", val |-> labels]
Host(ip)     == [kind |-> "ip", val |-> ip]
NoContent    == [kind |-> "none", val |-> << >>]

\* update_srv: a_record_name
ARecordName(sub_domain, domain) ==
    IF sub_domain = "" \/ sub_domain = "@"
    THEN Name(domain)
    ELSE Name(<<sub_domain>> \o domain)

\* update_srv: srv_name
SrvName(a_record_name) == Name(<<"_minecraft", "_tcp">> \o a_record_name.val)

\* update_srv: the content argument of the SRV upsert
MutSrvContent(host, a_record_name) == host
SrvContent(host, a_record_name) == a_record_name

Request(method, path, rectype, name, content, port, out) ==
    [method |-> method, path |-> path, rectype |-> rectype, name |-> name,
     content |-> content, port |-> port, out |-> out]

(***************************************************************************)
(* std::net: IpAddr.  An IPv4 address is its four octets, an IPv6 address  *)
(* its eight 16-bit segments.                                              *)
(***************************************************************************)
V4(octets) == [fam |-> "v4", val |-> octets]
V6(segments) == [fam |-> "v6", val |-> segments]

\* ::ffff:a.b.c.d, what a dual-stack listener reports for an IPv4 peer
V4Mapped(o) == V6(<<0, 0, 0, 0, 0, 65535, o[1] * 256 + o[2], o[3] * 256 + o[4]>>)

\* IpAddr::to_canonical
to_canonical(a) ==
    IF a.fam = "v6" /\ SubSeq(a.val, 1, 5) = <<0, 0, 0, 0, 0>> /\ a.val[6] = 65535
    THEN V4(<<a.val[7] \div 256, a.val[7] % 256, a.val[8] \div 256, a.val[8] % 256>>)
    ELSE a

\* b"hbpk", b"hbre"
HBPK == <<104, 98, 112, 107>>
HBRE == <<104, 98, 114, 101>>

(***************************************************************************)
(* forward.rs: forward, forward_v2: the PROXY protocol headers.            *)
(***************************************************************************)
SocketAddr(ip, port) == [ip |-> ip, port |-> port]

\* Ipv4Addr::octets, Ipv6Addr::octets
octets(ip) ==
    IF ip.fam = "v4"
    THEN ip.val
    ELSE [k \in 1..16 |-> IF k % 2 = 1 THEN ip.val[(k + 1) \div 2] \div 256
                                       ELSE ip.val[k \div 2] % 256]

\* u16::to_be_bytes
MutU16ToBe(n) == <<n % 256, n \div 256>>
U16ToBe(n) == <<n \div 256, n % 256>>

\* forward_v2: signature
PROXY_V2_SIGNATURE == <<13, 10, 13, 10, 0, 13, 10, 81, 85, 73, 84, 10>>

\* the match on (client_addr, server_local_addr): (V4, V4) or (V6, V6);
\* the _ arm returns Err
MutSameFamily(src, dst) == TRUE
SameFamily(src, dst) == src.ip.fam = dst.ip.fam

\* forward_v2: the header for a pair of one family
ProxyV2Header(src, dst) ==
    PROXY_V2_SIGNATURE
    \o (IF src.ip.fam = "v4" THEN <<33, 17>> \o U16ToBe(12)
                             ELSE <<33, 33>> \o U16ToBe(36))
    \o octets(src.ip) \o octets(dst.ip)
    \o U16ToBe(src.port) \o U16ToBe(dst.port)

\* forward: format!("PROXY TCP4 {} {} {} {}\r\n", ..), kept as its pieces:
\* the text of an address stands for the address
ProxyV1Header(src, dst) ==
    << "PROXY", IF src.ip.fam = "v4" THEN "TCP4" ELSE "TCP6",
       src.ip, dst.ip, src.port, dst.port, "\r\n" >>

ProxyHeader(version, src, dst) ==
    IF version = "V1" THEN ProxyV1Header(src, dst) ELSE ProxyV2Header(src, dst)

\* what a session writes to its upstream connection, in order
Written(from, data) == [from |-> from, data |-> data]

\* no session has failed yet
NoErr == [kind |-> "", version |-> "V1", beside |-> FALSE]

\* stun_loop: stream, before the first stun_connect has returned; used
\* tells that a Binding Request has been written to it
NoStream == [state |-> "none", used |-> FALSE]

\* what stun_connect returns
OpenStream == [state |-> "open", used |-> FALSE]

\* no heartbeat connection is followed
NoHeartbeat == [pc |-> "off", inbuf |-> << >>, eof |-> FALSE, msgs |-> 0,
                sent |-> 0, answered |-> 0]

\* a slot without a task
FreeSession ==
    [pc |-> "free", version |-> "V1", haproxy |-> FALSE,
     client_addr |-> None, server_local_addr |-> None, header |-> << >>, up |-> << >>]

VARIABLES
    \* main.rs
    mpc,          \* where main is
    WAN_ADDR,     \* the static cell
    config_file,  \* what config.json holds
    config,       \* the loaded configuration
    \* stun.rs: stun_loop
    spc,          \* where the maintainer task is
    last_addr,    \* Option<SocketAddr>
    reconn,       \* bool
    cur,          \* the address update_srv is publishing (addr of this iteration)
    reqs,         \* the HTTP requests of the current update_srv call, in order
    record_id,    \* upsert_record: the result of search_record_id
    failed,       \* the address of the last update_srv call that failed, if any
    \* the listeners (stun.rs register_listener, forward.rs run)
    lpc,          \* where the accept loop is
    lkind,        \* which listener_handle runs: "stun" or "forward"
    lfam,         \* the family the listening socket was bound with
    wan_host,     \* forward.rs listener_handle's parameter
    conn,         \* the connection the accept loop holds while it peeks
    accept_errs,  \* accept failures so far (counted up to MaxAcceptErrs)
    forwards,     \* running player sessions (forward / forward_v2 tasks)
    \* forward.rs: heartbeat_server
    responders,   \* running heartbeat responder tasks
    hb_retry,     \* heartbeat sessions that failed in a row (counted up to 3)
    \* forward.rs / stun.rs: forward, forward_v2 (one task per player session)
    sess,         \* the session tasks, by slot
    last_err,     \* the last session that failed: how, and whether others ran then
    \* the provider's zone
    zone,         \* how many A records a_record_name has, how many SRV records srv_name
    \* parse_addr on its own
    response,     \* the buffer handed to parse_addr
    parsed,       \* what parse_addr returned for it, once it has
    \* stun.rs: stun_loop's connection to the STUN server
    stream,       \* the TcpStream the maintainer holds
    \* forward.rs: heartbeat_server, one connection in detail
    heartbeat     \* the responder, the bytes it has not read, the replies written

vars == << mpc, WAN_ADDR, config_file, config, spc, last_addr, reconn, cur, reqs,
           record_id, failed, lpc, lkind, lfam, wan_host, conn, accept_errs, forwards,
           responders, hb_retry, sess, last_err, zone, response, parsed, stream,
           heartbeat >>

mainVars     == << mpc, WAN_ADDR, config_file, config >>
stunVars     == << spc, last_addr, reconn, cur, reqs, record_id, failed >>
listenVars   == << lpc, lkind, lfam, wan_host, conn, accept_errs, forwards >>
hbVars       == << responders, hb_retry >>
sessVars     == << sess, last_err >>
parseVars    == << response, parsed >>


Placeholder == Addr(<<0, 0, 0, 0>>, 0)

\* config.rs: HAProxyVersion
HAProxyVersions == {"V1", "V2"}

Configs ==
    [keep_alive : BOOLEAN, sub_domain : SubDomains,
     haproxy_support : BOOLEAN, haproxy_version : HAProxyVersions]

Running == mpc # "exited"

(***************************************************************************)
(* main.rs: main.  Init is the state after WAN_ADDR.set(...).              *)
(***************************************************************************)
InitWith(files) ==
    /\ mpc = "load_config"
    /\ WAN_ADDR = Placeholder
    /\ config_file \in files
    /\ config = [keep_alive |-> FALSE, sub_domain |-> "",
                 haproxy_support |-> FALSE, haproxy_version |-> "V1"]
    /\ spc = "off"
    /\ last_addr = None
    /\ reconn = FALSE
    /\ cur = None
    /\ reqs = << >>
    /\ record_id = None
    /\ failed = None
    /\ lpc = "off"
    /\ lkind = "none"
    /\ lfam = "none"
    /\ wan_host = << >>
    /\ conn = None
    /\ accept_errs = 0
    /\ forwards = 0
    /\ responders = 0
    /\ hb_retry = 0
    /\ sess = [i \in 1..MaxSessions |-> FreeSession]
    /\ last_err = NoErr
    /\ parsed = None
    /\ stream = NoStream
    /\ heartbeat = NoHeartbeat

\* BHConfig::_default_load() returned Ok
MainLoadConfigOk ==
    /\ mpc = "load_config"
    /\ config' = config_file
    /\ mpc' = "ddns_init"
    /\ UNCHANGED << zone, sessVars, parseVars, stream, heartbeat, WAN_ADDR, config_file, stunVars,
                    listenVars, hbVars >>

\* BHConfig::_default_load() returned Err: exit(1)
MainLoadConfigFail ==
    /\ mpc = "load_config"
    /\ mpc' = "exited"
    /\ UNCHANGED << zone, sessVars, parseVars, stream, heartbeat, WAN_ADDR, config_file, config,
                    stunVars, listenVars, hbVars >>

\* ddns::init sets PROVIDER and returns Ok(())
MainDdnsInit ==
    /\ mpc = "ddns_init"
    /\ mpc' = "stun_run"
    /\ UNCHANGED << zone, sessVars, parseVars, stream, heartbeat, WAN_ADDR, config_file, config,
                    stunVars, listenVars, hbVars >>

\* stun::run: stun_loop spawns the maintainer task and returns Ok(()) at once;
\* run goes on to register_listener
MainStunRun ==
    /\ mpc = "stun_run"
    /\ spc' = "lookup"
    /\ last_addr' = None
    /\ reconn' = FALSE
    /\ mpc' = "register_listener"
    /\ UNCHANGED << zone, sessVars, parseVars, stream, heartbeat, WAN_ADDR, config_file, config, cur,
                    reqs, record_id, failed,
                    listenVars, hbVars >>

(***************************************************************************)
(* stun.rs: stun_loop, the spawned task.                                   *)
(***************************************************************************)
\* lookup_host found an IPv4 address
StunLookupOk ==
    /\ Running /\ spc = "lookup"
    /\ spc' = "connect"
    /\ UNCHANGED << zone, sessVars, parseVars, stream, heartbeat, mainVars, last_addr, reconn, cur,
                    reqs, record_id, failed,
                    listenVars, hbVars >>

\* lookup_host failed or gave no IPv4 address: sleep 5 s
StunLookupFail ==
    /\ Running /\ spc = "lookup"
    /\ spc' = "lookup_sleep"
    /\ UNCHANGED << zone, sessVars, parseVars, stream, heartbeat, mainVars, last_addr, reconn, cur,
                    reqs, record_id, failed,
                    listenVars, hbVars >>

StunLookupRetry ==
    /\ Running /\ spc = "lookup_sleep"
    /\ spc' = "lookup"
    /\ UNCHANGED << zone, sessVars, parseVars, stream, heartbeat, mainVars, last_addr, reconn, cur,
                    reqs, record_id, failed,
                    listenVars, hbVars >>

\* the first stun_connect
StunConnectOk ==
    /\ Running /\ spc = "connect"
    /\ spc' = "iter"
    /\ stream' = OpenStream
    /\ UNCHANGED << zone, sessVars, parseVars, heartbeat, mainVars, last_addr, reconn, cur,
                    reqs, record_id, failed,
                    listenVars, hbVars >>

StunConnectFail ==
    /\ Running /\ spc = "connect"
    /\ spc' = "connect_sleep"
    /\ UNCHANGED << zone, sessVars, parseVars, stream, heartbeat, mainVars, last_addr, reconn, cur,
                    reqs, record_id, failed,
                    listenVars, hbVars >>

StunConnectRetry ==
    /\ Running /\ spc = "connect_sleep"
    /\ spc' = "connect"
    /\ UNCHANGED << zone, sessVars, parseVars, stream, heartbeat, mainVars, last_addr, reconn, cur,
                    reqs, record_id, failed,
                    listenVars, hbVars >>

\* the async block returned Err: reconn = true, log, sleep 5 s
IterErr ==
    /\ reconn' = TRUE
    /\ spc' = "err_sleep"
    /\ cur' = None
    /\ reqs' = << >>
    /\ record_id' = None

\* if reconn { stream = stun_connect(..).await?; reconn = false; }
StunIterReconnectOk ==
    /\ Running /\ spc = "iter" /\ reconn
    /\ reconn' = FALSE
    /\ spc' = "write"
    /\ stream' = OpenStream
    /\ UNCHANGED << zone, sessVars, parseVars, heartbeat, mainVars, last_addr, cur, reqs,
                    record_id, failed,
                    listenVars, hbVars >>

StunIterReconnectFail ==
    /\ Running /\ spc = "iter" /\ reconn
    /\ IterErr
    /\ UNCHANGED << zone, sessVars, parseVars, stream, heartbeat, mainVars, last_addr, failed,
                    listenVars, hbVars >>

StunIterNoReconnect ==
    /\ Running /\ spc = "iter" /\ ~reconn
    /\ spc' = "write"
    /\ UNCHANGED << zone, sessVars, parseVars, stream, heartbeat, mainVars, last_addr, reconn, cur,
                    reqs, record_id, failed,
                    listenVars, hbVars >>

\* stream.write_all(&request).await?
StunWriteOk ==
    /\ Running /\ spc = "write"
    /\ spc' = "read"
    /\ stream' = [stream EXCEPT !.used = TRUE]
    /\ UNCHANGED << zone, sessVars, parseVars, heartbeat, mainVars, last_addr, reconn, cur,
                    reqs, record_id, failed,
                    listenVars, hbVars >>

StunWriteFail ==
    /\ Running /\ spc = "write"
    /\ IterErr
    /\ stream' = [stream EXCEPT !.state = "failed", !.used = TRUE]
    /\ UNCHANGED << zone, sessVars, parseVars, heartbeat, mainVars, last_addr, failed,
                    listenVars, hbVars >>

\* stream.read(&mut response).await? returned Err
StunReadFail ==
    /\ Running /\ spc = "read"
    /\ IterErr
    /\ stream' = [stream EXCEPT !.state = "failed"]
    /\ UNCHANGED << zone, sessVars, parseVars, heartbeat, mainVars, last_addr, failed,
                    listenVars, hbVars >>

\* the comparison that decides whether update_srv is called
MutAddrChanged(addr, last) == TRUE
AddrChanged(addr, last) == Some(addr) # last

\* parse_addr(&response) for each of the responses
ParsedResponses == [d \in Responses |-> parse_addr(ResponseBuffer(d))]

\* stream.read returned Ok(n) with data in the buffer (n = 0: nothing, EOF);
\* parse_addr(&response)?; if Some(addr) != last_addr { update_srv .. }
StunReadResponse(data) ==
    /\ Running /\ spc = "read"
    /\ LET r == ParsedResponses[data]
       IN  CASE r.kind = "panic" ->
                  \* index out of bounds: the task unwinds and is gone
                  /\ spc' = "panicked"
                  /\ UNCHANGED << reconn, cur, reqs, record_id, stream >>
             [] r.kind = "err" ->
                  \* ? leaves the iteration: the stream is not used again
                  /\ IterErr
                  /\ stream' = [stream EXCEPT !.state = "failed"]
             [] r.kind = "ok" ->
                  /\ cur' = Some(Addr(r.ip, r.port))
                  /\ spc' = IF AddrChanged(Addr(r.ip, r.port), last_addr)
                            THEN "zone" ELSE "post"
                  /\ UNCHANGED << reconn, reqs, record_id, stream >>
    /\ UNCHANGED << zone, sessVars, parseVars, heartbeat, mainVars, last_addr, failed,
                    listenVars, hbVars >>

(***************************************************************************)
(* ddns/cloudflare.rs: update_srv, awaited inside the maintainer's         *)
(* iteration.  One action is one HTTP request with its response.           *)
(*   "found"   2xx, result[0].id present                                   *)
(*   "absent"  2xx, result empty                                           *)
(*   "non2xx"  an error status with a JSON body (no result)                *)
(*   "err"     no response, or a body that is not JSON                     *)
(***************************************************************************)
TheAddr == CHOOSE a \in cur : TRUE
AName == ARecordName(config.sub_domain, Domain)

\* stun_loop: update_srv returned Err: log, last_addr stays
MutPublishFailed ==
    /\ last_addr' = cur
    /\ failed' = cur
    /\ spc' = "post"
PublishFailed ==
    /\ last_addr' = last_addr
    /\ failed' = cur
    /\ spc' = "post"

\* stun_loop: update_srv returned Ok: last_addr = Some(addr)
PublishSucceeded ==
    /\ last_addr' = cur
    /\ failed' = None
    /\ spc' = "post"

\* fetch_zone_id
FetchZoneId ==
    /\ Running /\ spc = "zone"
    /\ \E out \in {"found", "absent", "non2xx", "err"} :
         /\ reqs' = Append(reqs, Request("GET", "zones", "-", Name(Domain),
                                         NoContent, 0, out))
         /\ IF out = "found"
            THEN spc' = "a_search" /\ UNCHANGED << last_addr, failed >>
            ELSE PublishFailed
    /\ UNCHANGED << zone, sessVars, parseVars, stream, heartbeat, mainVars, reconn, cur, record_id,
                    listenVars, hbVars >>

\* the records the zone holds at the name of such a record
ZoneCount(rectype) == IF rectype = "A" THEN zone.a ELSE zone.srv

\* what the provider can answer to GET dns_records?name=..
SearchAnswers(rectype) ==
    {"non2xx", "err"} \cup (IF ZoneCount(rectype) > 0 THEN {"found"} ELSE {"absent"})

\* what it can answer to the PATCH or POST: a POST answered 2xx has
\* created a record
SendAnswers(method, rectype) ==
    {"non2xx", "err"}
    \cup (IF method = "POST" /\ ZoneCount(rectype) >= MaxRecords THEN {} ELSE {"2xx"})

ZoneAfter(method, rectype, out) ==
    IF method = "POST" /\ out = "2xx"
    THEN IF rectype = "A" THEN [zone EXCEPT !.a = @ + 1] ELSE [zone EXCEPT !.srv = @ + 1]
    ELSE zone

\* upsert_record: search_record_id(zone_id, full_name)
SearchRecordId(at, rectype, full_name, next) ==
    /\ Running /\ spc = at
    /\ \E out \in SearchAnswers(rectype) :
         /\ reqs' = Append(reqs, Request("GET", "dns_records", rectype, full_name,
                                         NoContent, 0, out))
         /\ IF out = "err"
            THEN PublishFailed /\ UNCHANGED record_id
            ELSE /\ record_id' = IF out = "found" THEN Some("id") ELSE None
                 /\ spc' = next
                 /\ UNCHANGED << last_addr, failed >>
    /\ UNCHANGED << zone, sessVars, parseVars, stream, heartbeat, mainVars, reconn, cur, listenVars,
                    hbVars >>

\* upsert_record: PATCH the record found, or POST a new one
UpsertMethod(id) == IF id # None THEN "PATCH" ELSE "POST"

\* update_srv: upsert_record(zone, "A", a_record_name, host, None)
UpsertASearch == SearchRecordId("a_search", "A", AName, "a_send")

UpsertASend ==
    /\ Running /\ spc = "a_send"
    /\ \E out \in SendAnswers(UpsertMethod(record_id), "A") :
         /\ zone' = ZoneAfter(UpsertMethod(record_id), "A", out)
         /\ reqs' = Append(reqs, Request(UpsertMethod(record_id), "dns_records", "A",
                                         AName, Host(TheAddr.ip), 0, out))
         /\ IF out = "2xx"
            THEN spc' = "srv_search" /\ UNCHANGED << last_addr, failed >>
            ELSE PublishFailed
    /\ UNCHANGED << sessVars, parseVars, stream, heartbeat, mainVars, reconn, cur, record_id,
                    listenVars, hbVars >>

\* update_srv: upsert_record(zone, "SRV", srv_name, a_record_name, Some(port))
UpsertSrvSearch == SearchRecordId("srv_search", "SRV", SrvName(AName), "srv_send")

UpsertSrvSend ==
    /\ Running /\ spc = "srv_send"
    /\ \E out \in SendAnswers(UpsertMethod(record_id), "SRV") :
         /\ zone' = ZoneAfter(UpsertMethod(record_id), "SRV", out)
         /\ reqs' = Append(reqs, Request(UpsertMethod(record_id), "dns_records", "SRV",
                                         SrvName(AName),
                                         SrvContent(Host(TheAddr.ip), AName),
                                         TheAddr.port, out))
         /\ IF out = "2xx" THEN PublishSucceeded ELSE PublishFailed
    /\ UNCHANGED << sessVars, parseVars, stream, heartbeat, mainVars, reconn, cur, record_id,
                    listenVars, hbVars >>

(***************************************************************************)
(* stun_loop: the end of the iteration.                                    *)
(***************************************************************************)
\* reconn after if !config.keep_alive { ..; reconn = true; }
MutReconnAfter(keep_alive, reconn_now) == reconn_now
ReconnAfter(keep_alive, reconn_now) == IF keep_alive THEN reconn_now ELSE TRUE

\* if !config.keep_alive { stream.shutdown().await?; reconn = true; }
\* with keep_alive the block is skipped; either way on to the sleep
StunKeepAlive ==
    /\ Running /\ spc = "post"
    /\ reconn' = ReconnAfter(config.keep_alive, reconn)
    /\ spc' = "sleep"
    /\ stream' = IF config.keep_alive THEN stream
                           ELSE [stream EXCEPT !.state = "shut"]
    /\ cur' = None /\ reqs' = << >> /\ record_id' = None
    /\ UNCHANGED << zone, sessVars, parseVars, heartbeat, mainVars, last_addr, failed,
                    listenVars, hbVars >>

\* stream.shutdown() failed: ? leaves the iteration
StunShutdownFail ==
    /\ Running /\ spc = "post" /\ ~config.keep_alive
    /\ IterErr
    /\ stream' = [stream EXCEPT !.state = "failed"]
    /\ UNCHANGED << zone, sessVars, parseVars, heartbeat, mainVars, last_addr, failed,
                    listenVars, hbVars >>

\* sleep(heartbeat) is over: the next iteration
StunSleepDone ==
    /\ Running /\ spc = "sleep"
    /\ spc' = "iter"
    /\ UNCHANGED << zone, sessVars, parseVars, stream, heartbeat, mainVars, last_addr, reconn, cur,
                    reqs, record_id, failed,
                    listenVars, hbVars >>

\* sleep(5 s) after an error is over: the next iteration
StunErrSleepDone ==
    /\ Running /\ spc = "err_sleep"
    /\ spc' = "iter"
    /\ UNCHANGED << zone, sessVars, parseVars, stream, heartbeat, mainVars, last_addr, reconn, cur,
                    reqs, record_id, failed,
                    listenVars, hbVars >>

StunNext ==
    \/ StunLookupOk \/ StunLookupFail \/ StunLookupRetry
    \/ StunConnectOk \/ StunConnectFail \/ StunConnectRetry
    \/ StunIterReconnectOk \/ StunIterReconnectFail \/ StunIterNoReconnect
    \/ StunWriteOk \/ StunWriteFail
    \/ StunReadFail
    \/ \E data \in Responses : StunReadResponse(data)
    \/ FetchZoneId \/ UpsertASearch \/ UpsertASend \/ UpsertSrvSearch \/ UpsertSrvSend
    \/ StunKeepAlive \/ StunShutdownFail
    \/ StunSleepDone \/ StunErrSleepDone

MainStartNext ==
    \/ MainLoadConfigOk \/ MainLoadConfigFail \/ MainDdnsInit \/ MainStunRun

NextMaintainer == MainStartNext \/ StunNext

\* the zone at the start: each of the two records there or not
Zones == [a : 0..1, srv : 0..1]

\* every configuration, the maintainer and the publisher alone
InitMaintainer ==
    /\ InitWith({c \in Configs : ~c.haproxy_support /\ c.haproxy_version = "V1"})
    /\ zone \in Zones
    /\ response = << >>

SpecMaintainer == InitMaintainer /\ [][NextMaintainer]_vars


(***************************************************************************)
(* The peers of the listener and what they send first.                     *)
(***************************************************************************)
Peers(fam) ==
    IF fam = "v4"
    THEN {V4(P1.ip), V4(P2.ip)}
    ELSE {V4Mapped(P1.ip), V4Mapped(P2.ip), V6(<<8193, 3512, 0, 0, 0, 0, 0, 1>>)}

\* the first bytes of a connection: a heartbeat probe, a player's first
\* packet, nothing at all
FirstBytes == {HBPK, <<104, 98, 112, 120>>, << >>}

(***************************************************************************)
(* main.rs / stun.rs: stun::run goes on to register_listener, which binds  *)
(* [::] and falls back to 0.0.0.0; listener_handle never returns.          *)
(***************************************************************************)
MainRegisterListenerOk ==
    /\ mpc = "register_listener"
    /\ \E fam \in {"v6", "v4"} : lfam' = fam
    /\ lkind' = "stun"
    /\ lpc' = "accept"
    /\ mpc' = "stun_listening"
    /\ UNCHANGED << zone, sessVars, parseVars, stream, heartbeat, WAN_ADDR, config_file, config,
                    stunVars, wan_host, conn,
                    accept_errs, forwards, hbVars >>

\* the fallback failed too: register_listener and run return Err, which
\* main drops; main goes on to forward::run
MainRegisterListenerFail ==
    /\ mpc = "register_listener"
    /\ mpc' = "forward_run"
    /\ UNCHANGED << zone, sessVars, parseVars, stream, heartbeat, WAN_ADDR, config_file, config,
                    stunVars, listenVars, hbVars >>

\* main.rs names no wan_host argument: the public IP main can know of is
\* WAN_ADDR's or the one the maintainer has published by now
WanHosts == {V4(WAN_ADDR.ip)} \cup {V4(a.ip) : a \in last_addr}

\* forward.rs: run(config, wan_host) bound a listener
MainForwardRunOk ==
    /\ mpc = "forward_run"
    /\ \E fam \in {"v6", "v4"} : lfam' = fam
    /\ \E w \in WanHosts : wan_host' = w
    /\ lkind' = "forward"
    /\ lpc' = "accept"
    /\ mpc' = "forward_listening"
    /\ UNCHANGED << zone, sessVars, parseVars, stream, heartbeat, WAN_ADDR, config_file, config,
                    stunVars, conn, accept_errs,
                    forwards, hbVars >>

\* forward::run returned Err: exit(1)
MainForwardRunFail ==
    /\ mpc = "forward_run"
    /\ mpc' = "exited"
    /\ UNCHANGED << zone, sessVars, parseVars, stream, heartbeat, WAN_ADDR, config_file, config,
                    stunVars, listenVars, hbVars >>

(***************************************************************************)
(* listener_handle: the accept loop (forward.rs 98-144, stun.rs 102-127).  *)
(***************************************************************************)
\* Err(e) => log, sleep 100 ms
MutAcceptFailed ==
    /\ Running /\ lpc = "accept"
    /\ lpc' = "returned"
    /\ accept_errs' = IF accept_errs < MaxAcceptErrs THEN accept_errs + 1 ELSE accept_errs
    /\ UNCHANGED << zone, sessVars, parseVars, stream, heartbeat, mainVars, stunVars, lkind, lfam,
                    wan_host, conn, forwards, hbVars >>
AcceptFailed ==
    /\ Running /\ lpc = "accept"
    /\ lpc' = "sleep"
    /\ accept_errs' = IF accept_errs < MaxAcceptErrs THEN accept_errs + 1 ELSE accept_errs
    /\ UNCHANGED << zone, sessVars, parseVars, stream, heartbeat, mainVars, stunVars, lkind, lfam,
                    wan_host, conn, forwards, hbVars >>

AcceptSleepDone ==
    /\ Running /\ lpc = "sleep"
    /\ lpc' = "accept"
    /\ UNCHANGED << zone, sessVars, parseVars, stream, heartbeat, mainVars, stunVars, lkind, lfam,
                    wan_host, conn, accept_errs,
                    forwards, hbVars >>

\* forward.rs: if addr.ip().to_canonical() == wan_host
IsWanPeer(peer, wan) == to_canonical(peer) = wan

\* stun.rs listener_handle has no such test
Peeks(kind, peer, wan) == kind = "forward" /\ IsWanPeer(peer, wan)

\* stun.rs's listener_handle always calls forward; forward.rs's matches on
\* haproxy_version
SessionVersion(kind, cfg) == IF kind = "stun" THEN "V1" ELSE cfg.haproxy_version

FreeSlot == CHOOSE i \in 1..MaxSessions :
                sess[i].pc = "free" /\ \A j \in 1..(i - 1) : sess[j].pc # "free"

\* tokio::spawn(forward(..)) or tokio::spawn(forward_v2(..))
SpawnForward ==
    /\ forwards' = forwards + 1
    /\ sess' = [sess EXCEPT ![FreeSlot] =
                    [FreeSession EXCEPT !.pc = "connect",
                                        !.version = SessionVersion(lkind, config),
                                        !.haproxy = config.haproxy_support]]
    /\ UNCHANGED last_err

\* Ok((client_stream, addr)): a connection from the WAN address is peeked at,
\* any other is forwarded at once
Accept(peer, data) ==
    /\ Running /\ lpc = "accept"
    /\ forwards + responders < MaxSessions
    /\ IF Peeks(lkind, peer, wan_host)
       THEN /\ lpc' = "peek"
            /\ conn' = Some([peer |-> peer, data |-> data])
            /\ UNCHANGED << forwards, sessVars >>
       ELSE /\ SpawnForward
            /\ UNCHANGED << lpc, conn >>
    /\ UNCHANGED << zone, parseVars, stream, heartbeat, mainVars, stunVars, lkind, lfam, wan_host,
                    accept_errs, hbVars >>

TheConn == CHOOSE c \in conn : TRUE

\* let mut buf = [0u8; 4]; peek fills its first n bytes
PeekBuf(data, n) == [i \in 1..4 |-> IF i <= n THEN data[i] ELSE 0]

\* Ok(n) if n >= 4 && &buf == b"hbpk"
IsHeartbeat(n, buf) == n >= 4 /\ buf = HBPK

\* peek returned Ok(n): the n bytes that have arrived so far (0: the peer
\* closed without sending)
PeekReturned(n) ==
    /\ Running /\ lpc = "peek"
    /\ IF Len(TheConn.data) = 0 THEN n = 0 ELSE n >= 1 /\ n <= Len(TheConn.data)
    /\ IF IsHeartbeat(n, PeekBuf(TheConn.data, n))
       THEN responders' = responders + 1 /\ UNCHANGED << forwards, sessVars >>
       ELSE SpawnForward /\ UNCHANGED responders
    /\ conn' = None
    /\ lpc' = "accept"
    /\ UNCHANGED << zone, parseVars, stream, heartbeat, mainVars, stunVars, lkind, lfam, wan_host,
                    accept_errs, hb_retry >>

\* peek returned Err: the _ arm, the connection is forwarded
PeekFailed ==
    /\ Running /\ lpc = "peek"
    /\ SpawnForward
    /\ conn' = None
    /\ lpc' = "accept"
    /\ UNCHANGED << zone, parseVars, stream, heartbeat, mainVars, stunVars, lkind, lfam, wan_host,
                    accept_errs, hbVars >>

(***************************************************************************)
(* forward / forward_v2: one player session.                               *)
(*   "connect"       awaiting TcpStream::connect(server)                   *)
(*   "write_header"  awaiting server_stream.write_all(header)              *)
(*   "copy"          awaiting copy_bidirectional                           *)
(***************************************************************************)
OthersRunning(i) == \E j \in 1..MaxSessions : j # i /\ sess[j].pc # "free"

\* the task is over (Ok, or Err that the spawned closure logs): its streams
\* are dropped
MutEndSession(i, err) ==
    /\ sess' = [j \in 1..MaxSessions |-> FreeSession]
    /\ forwards' = 0
    /\ last_err' = IF err = "" THEN last_err
                   ELSE [kind |-> err, version |-> sess[i].version,
                         beside |-> OthersRunning(i)]
EndSession(i, err) ==
    /\ sess' = [sess EXCEPT ![i] = FreeSession]
    /\ forwards' = forwards - 1
    /\ last_err' = IF err = "" THEN last_err
                   ELSE [kind |-> err, version |-> sess[i].version,
                         beside |-> OthersRunning(i)]

\* a session as the whole system sees it: spawned, and at some time over
ForwardDone ==
    /\ Running
    /\ \E i \in 1..MaxSessions : sess[i].pc = "connect" /\ EndSession(i, "")
    /\ UNCHANGED << zone, parseVars, stream, heartbeat, mainVars, stunVars, lpc, lkind, lfam, wan_host,
                    conn,
                    accept_errs, hbVars >>

\* peer_addr() of the accepted stream: on a [::] listener an IPv4 client
\* shows as ::ffff:a.b.c.d
ClientAddrs(fam) ==
    IF fam = "v4"
    THEN {SocketAddr(V4(<<10, 0, 0, 1>>), 1000), SocketAddr(V4(P1.ip), 54321)}
    ELSE {SocketAddr(V4Mapped(<<10, 0, 0, 1>>), 1000),
          SocketAddr(V6(<<8193, 3512, 0, 0, 0, 0, 0, 1>>), 1000)}

\* local_addr() of the upstream stream: the family of the game server's address
LocalAddrs ==
    {SocketAddr(V4(<<10, 0, 0, 2>>), 2000),
     SocketAddr(V6(<<8193, 3512, 0, 0, 0, 0, 0, 2>>), 2000)}

\* TcpStream::connect(server), peer_addr() or local_addr() returned Err
SessConnectFail(i) ==
    /\ Running /\ sess[i].pc = "connect"
    /\ EndSession(i, "connect")
    /\ UNCHANGED << zone, parseVars, stream, heartbeat, mainVars, stunVars, lpc, lkind, lfam, wan_host,
                    conn,
                    accept_errs, hbVars >>

\* the step after a connect: the header is written first
MutAfterConnect(haproxy) == "copy"
AfterConnect(haproxy) == IF haproxy THEN "write_header" ELSE "copy"

\* connect returned Ok; with haproxy the header is built from
\* (client_addr, server_local_addr), and a pair of two families returns Err
SessConnectOk(i, client_addr, server_local_addr) ==
    /\ Running /\ sess[i].pc = "connect"
    /\ IF sess[i].haproxy /\ ~SameFamily(client_addr, server_local_addr)
       THEN EndSession(i, "family")
       ELSE /\ sess' = [sess EXCEPT
                  ![i].pc = AfterConnect(sess[i].haproxy),
                  ![i].client_addr = IF sess[i].haproxy THEN Some(client_addr)
                                                        ELSE None,
                  ![i].server_local_addr = IF sess[i].haproxy
                                           THEN Some(server_local_addr) ELSE None,
                  ![i].header = IF sess[i].haproxy
                                THEN ProxyHeader(sess[i].version, client_addr,
                                                 server_local_addr)
                                ELSE << >>]
            /\ UNCHANGED << forwards, last_err >>
    /\ UNCHANGED << zone, parseVars, stream, heartbeat, mainVars, stunVars, lpc, lkind, lfam, wan_host,
                    conn,
                    accept_errs, hbVars >>

\* server_stream.write_all(header) returned Ok
SessHeaderWritten(i) ==
    /\ Running /\ sess[i].pc = "write_header"
    /\ sess' = [sess EXCEPT ![i].pc = "copy",
                            ![i].up = Append(@, Written("header", sess[i].header))]
    /\ UNCHANGED << forwards, last_err >>
    /\ UNCHANGED << zone, parseVars, stream, heartbeat, mainVars, stunVars, lpc, lkind, lfam, wan_host,
                    conn,
                    accept_errs, hbVars >>

\* write_all returned Err: ? returns it
SessHeaderWriteFail(i) ==
    /\ Running /\ sess[i].pc = "write_header"
    /\ EndSession(i, "header")
    /\ UNCHANGED << zone, parseVars, stream, heartbeat, mainVars, stunVars, lpc, lkind, lfam, wan_host,
                    conn,
                    accept_errs, hbVars >>

\* copy_bidirectional passes a chunk the client sent on to the upstream
SessCopyUp(i) ==
    /\ Running /\ sess[i].pc = "copy"
    /\ Len(sess[i].up) < MaxWritten
    /\ sess' = [sess EXCEPT ![i].up = Append(@, Written("client", <<254>>))]
    /\ UNCHANGED << forwards, last_err >>
    /\ UNCHANGED << zone, parseVars, stream, heartbeat, mainVars, stunVars, lpc, lkind, lfam, wan_host,
                    conn,
                    accept_errs, hbVars >>

\* copy_bidirectional returned Ok: both directions are closed
SessCopyDone(i) ==
    /\ Running /\ sess[i].pc = "copy"
    /\ EndSession(i, "")
    /\ UNCHANGED << zone, parseVars, stream, heartbeat, mainVars, stunVars, lpc, lkind, lfam, wan_host,
                    conn,
                    accept_errs, hbVars >>

\* copy_bidirectional returned Err
SessCopyFail(i) ==
    /\ Running /\ sess[i].pc = "copy"
    /\ EndSession(i, "copy")
    /\ UNCHANGED << zone, parseVars, stream, heartbeat, mainVars, stunVars, lpc, lkind, lfam, wan_host,
                    conn,
                    accept_errs, hbVars >>

SessNext ==
    \E i \in 1..MaxSessions :
        \/ SessConnectFail(i)
        \/ \E c \in ClientAddrs(lfam) : \E l \in LocalAddrs : SessConnectOk(i, c, l)
        \/ SessHeaderWritten(i) \/ SessHeaderWriteFail(i)
        \/ SessCopyUp(i) \/ SessCopyDone(i) \/ SessCopyFail(i)

(***************************************************************************)
(* forward.rs: heartbeat_server, one task per heartbeat connection.        *)
(* hb_retry counts the sessions that ended in an I/O error since the last  *)
(* answered probe.                                                         *)
(***************************************************************************)
Bump(n) == IF n < 3 THEN n + 1 ELSE n

\* read "hbpk", write_all(b"hbre") succeeded
HbAnswered ==
    /\ Running /\ responders > 0
    /\ hb_retry' = 0
    /\ UNCHANGED << zone, sessVars, parseVars, stream, heartbeat, mainVars, stunVars, listenVars,
                    responders >>

\* read "hbpk", write_all failed: break
HbWriteFailed ==
    /\ Running /\ responders > 0
    /\ responders' = responders - 1
    /\ hb_retry' = Bump(hb_retry)
    /\ UNCHANGED << zone, sessVars, parseVars, stream, heartbeat, mainVars, stunVars, listenVars >>

\* Ok(0): the client disconnected: break
HbReadEof ==
    /\ Running /\ responders > 0
    /\ responders' = responders - 1
    /\ UNCHANGED << zone, sessVars, parseVars, stream, heartbeat, mainVars, stunVars, listenVars,
                    hb_retry >>

\* Err(e): break
HbReadFailed ==
    /\ Running /\ responders > 0
    /\ responders' = responders - 1
    /\ hb_retry' = Bump(hb_retry)
    /\ UNCHANGED << zone, sessVars, parseVars, stream, heartbeat, mainVars, stunVars, listenVars >>

ListenNext ==
    \/ AcceptFailed \/ AcceptSleepDone
    \/ \E peer \in Peers(lfam) : \E data \in FirstBytes : Accept(peer, data)
    \/ \E n \in 0..4 : PeekReturned(n)
    \/ PeekFailed
    \/ ForwardDone

HbNext == HbAnswered \/ HbWriteFailed \/ HbReadEof \/ HbReadFailed

MainNext ==
    \/ MainStartNext
    \/ MainRegisterListenerOk \/ MainRegisterListenerFail
    \/ MainForwardRunOk \/ MainForwardRunFail

Next == MainNext \/ StunNext \/ ListenNext \/ HbNext

\* the whole system, with one configuration: sub_domain "mc", and keep_alive
\* off, so that every iteration of the maintainer also shuts its stream down
\* and reconnects
Init ==
    /\ InitWith({c \in Configs : /\ c.sub_domain = "mc" /\ ~c.keep_alive
                                 /\ ~c.haproxy_support /\ c.haproxy_version = "V1"})
    /\ zone = [a |-> 0, srv |-> 0]
    /\ response = << >>

Spec == Init /\ [][Next]_vars

\* the forwarder: main, the accepts that return a connection and the player
\* sessions step by step, under every haproxy configuration
InitForward ==
    /\ InitWith({c \in Configs : c.sub_domain = "mc" /\ ~c.keep_alive})
    /\ zone = [a |-> 0, srv |-> 0]
    /\ response = << >>

NextForward ==
    \/ MainNext
    \/ \E peer \in Peers(lfam) : \E data \in FirstBytes : Accept(peer, data)
    \/ SessNext

SpecForward == InitForward /\ [][NextForward]_vars

\* the accept loops on their own, from the time one is running: the
\* maintainer has published P1 and sleeps; forward.rs's listener was started
\* with P1's IP
InitListener ==
    /\ config_file \in {c \in Configs : /\ c.sub_domain = "mc" /\ ~c.keep_alive
                                        /\ ~c.haproxy_support /\ c.haproxy_version = "V1"}
    /\ config = config_file
    /\ WAN_ADDR = Placeholder
    /\ spc = "sleep" /\ last_addr = Some(P1) /\ reconn = TRUE
    /\ cur = None /\ reqs = << >> /\ record_id = None /\ failed = None
    /\ zone = [a |-> 1, srv |-> 1]
    /\ \/ mpc = "stun_listening" /\ lkind = "stun" /\ wan_host = << >>
       \/ mpc = "forward_listening" /\ lkind = "forward" /\ wan_host = V4(P1.ip)
    /\ lfam \in {"v4", "v6"}
    /\ lpc = "accept" /\ conn = None /\ accept_errs = 0 /\ forwards = 0
    /\ responders = 0 /\ hb_retry = 0
    /\ sess = [i \in 1..MaxSessions |-> FreeSession]
    /\ last_err = NoErr
    /\ response = << >> /\ parsed = None
    /\ stream = [NoStream EXCEPT !.state = "shut", !.used = TRUE]
    /\ heartbeat = NoHeartbeat

NextListener == ListenNext \/ HbNext

SpecListener == InitListener /\ [][NextListener]_vars


\* the maintainer and the publisher alone, the task scheduled fairly: the
\* runtime polls a spawned task whenever its await is ready
FairMaintainer == SpecMaintainer /\ WF_vars(StunNext)

(***************************************************************************)
(* Properties.                                                             *)
(***************************************************************************)
TheLastAddr == CHOOSE a \in last_addr : TRUE

FirstFour(data) == IF Len(data) >= 4 THEN SubSeq(data, 1, 4) ELSE << >>

AllPeers == Peers("v4") \cup Peers("v6")

\* C1: heartbeat demux of the forward.rs accept loop.  (a) a connection from
\* wan_host whose first four bytes are "hbpk" goes to the heartbeat responder
\* and is not forwarded, whatever number of bytes the peek returned; (b) a
\* connection from wan_host with other first bytes is forwarded; (c) a
\* connection from any other IP is forwarded.
C1_HeartbeatDemux ==
    [][ /\ \A n \in 0..4 :
             PeekReturned(n) =>
                 IF FirstFour(TheConn.data) = HBPK
                 THEN responders' = responders + 1 /\ forwards' = forwards
                 ELSE forwards' = forwards + 1 /\ responders' = responders
        /\ \A peer \in AllPeers : \A data \in FirstBytes :
             (Accept(peer, data) /\ lkind = "forward" /\ ~IsWanPeer(peer, wan_host))
                 => forwards' = forwards + 1
      ]_vars

\* C2: the demux follows the current public address.  Once the listener was
\* started with the public IP of that time and the maintainer has published
\* an address, an accepted connection that starts with "hbpk" is taken for
\* the heartbeat demux exactly when its peer IP is the IP of the address
\* published last; from any other IP (an earlier public IP too) it is
\* forwarded as a player session.
C2_DemuxFollowsCurrentWan ==
    [][ \A peer \in AllPeers :
          ( /\ Accept(peer, HBPK)
            /\ lkind = "forward"
            /\ wan_host # V4(Placeholder.ip)
            /\ last_addr # None )
          => IF to_canonical(peer) = V4(TheLastAddr.ip)
             THEN lpc' = "peek" /\ forwards' = forwards
             ELSE forwards' = forwards + 1
      ]_vars

\* C3: startup order.  No listener accepts before the maintainer has
\* published a first address and WAN_ADDR has been written with it.
C3_ListenerAfterFirstPublish ==
    lpc # "off" => (last_addr # None /\ WAN_ADDR # Placeholder)

\* where the maintainer is while it measures or publishes
Measuring ==
    {"iter", "write", "read", "zone", "a_search", "a_send", "srv_search", "srv_send"}

\* C4: heartbeat escalation.  The step that makes it three heartbeat
\* sessions failed in a row invokes the maintainer: it is measuring (or
\* publishing) right after that step.
C4_ThreeFailuresRemeasure ==
    [][ (hb_retry # 3 /\ hb_retry' = 3) => spc' \in Measuring ]_vars

\* the name update_srv is to use for the A record
ExpectedAName ==
    IF config.sub_domain \in {"", "@"}
    THEN Name(<<"example", "com">>)
    ELSE Name(<<config.sub_domain, "example", "com">>)

IsUpsert(r) == r.method \in {"PATCH", "POST"}

\* C5: within one update_srv call every SRV request (the search and the
\* PATCH or POST) comes after an A upsert that was answered 2xx, so a failed
\* A upsert is followed by no SRV request; the A record is written at
\* sub_domain.domain (domain alone for "" and "@") with the host as content,
\* and the SRV upsert's target is that name, never the host.
C5_AThenSrvTargetIsName ==
    \A i \in 1..Len(reqs) :
        /\ reqs[i].rectype = "SRV" =>
              /\ \E j \in 1..(i - 1) :
                    reqs[j].rectype = "A" /\ IsUpsert(reqs[j]) /\ reqs[j].out = "2xx"
              /\ reqs[i].name = Name(<<"_minecraft", "_tcp">> \o ExpectedAName.val)
              /\ IsUpsert(reqs[i]) =>
                    /\ reqs[i].content = ExpectedAName
                    /\ reqs[i].content.kind # "ip"
                    /\ cur # None /\ reqs[i].port = TheAddr.port
        /\ (reqs[i].rectype = "A" /\ IsUpsert(reqs[i])) =>
              /\ reqs[i].name = ExpectedAName
              /\ cur # None /\ reqs[i].content = Host(TheAddr.ip)
              /\ \A j \in 1..(i - 1) : reqs[j].rectype # "SRV"

\* C5 witness: an update_srv call has issued its SRV upsert
C5_Witness ==
    \E i \in 1..Len(reqs) : reqs[i].rectype = "SRV" /\ IsUpsert(reqs[i])

DdnsStates == {"zone", "a_search", "a_send", "srv_search", "srv_send"}

\* the update_srv call that ends in this step returned Ok: its last request
\* is the SRV upsert, answered 2xx
ReturnsOk ==
    /\ spc \in DdnsStates /\ spc' = "post"
    /\ reqs'[Len(reqs')].rectype = "SRV"
    /\ IsUpsert(reqs'[Len(reqs')])
    /\ reqs'[Len(reqs')].out = "2xx"

ReturnsErr ==
    /\ spc \in DdnsStates /\ spc' = "post"
    /\ ~ReturnsOk

\* C6: an update_srv call that fails (at the zone lookup, the A upsert or
\* the SRV upsert) leaves last_addr as it was; an iteration in which STUN
\* returns an address calls update_srv exactly when that address differs
\* from last_addr, so the address is published again on every such
\* iteration until a call succeeds; the successful call sets last_addr to
\* it, and from then on the same address is not published again.
C6_FailedPublishRetried ==
    [][ /\ ReturnsErr => last_addr' = last_addr
        /\ ReturnsOk => last_addr' = cur
        /\ (spc = "read" /\ cur' # None) => (spc' = "zone" <=> cur' # last_addr)
        /\ (spc = "read" /\ cur' # None /\ cur' = failed /\ last_addr # failed)
              => spc' = "zone"
      ]_vars

\* C6 witness: update_srv is called again for the address whose last call failed
C6_Witness == spc = "zone" /\ cur # None /\ failed = cur /\ last_addr # cur

\* C8: once the maintainer has published an address, WAN_ADDR comes to hold
\* it, unless another address has replaced it by then (stated for the runs
\* in which the maintainer task keeps running).
C8_WanAddrFollowsPublish ==
    \A a \in {P1, P2} :
        [](last_addr = Some(a)
             => <>(WAN_ADDR = a \/ last_addr # Some(a) \/ spc = "panicked"))

\* C9: the maintainer task never ends: once spawned it is at one of the
\* steps of its loops, whatever the STUN server sent.
C9_MaintainerNeverExits ==
    spc # "off" =>
        spc \in Measuring \cup {"lookup", "lookup_sleep", "connect", "connect_sleep",
                                "post", "sleep", "err_sleep"}

\* C10: an accept error never ends the accept loop: the failed accept is
\* followed by the 100 ms sleep, the sleep by another accept, the loop is
\* never left, and every successful accept hands its connection on (to the
\* heartbeat demux's peek or to a spawned player session).
C10_AcceptErrorsNeverTerminate ==
    [][ /\ lpc # "off" => lpc' \in {"accept", "sleep", "peek"}
        /\ (lpc = "accept" /\ accept_errs < MaxAcceptErrs /\ accept_errs' # accept_errs)
              => lpc' = "sleep"
        /\ lpc = "sleep" => lpc' \in {"sleep", "accept"}
        /\ \A peer \in AllPeers : \A data \in FirstBytes :
              Accept(peer, data) => (lpc' = "peek" \/ forwards' = forwards + 1)
      ]_vars

\* C10 witness: accepts have failed, and the accept after them succeeded:
\* the loop holds its connection
C10_Witness == accept_errs >= 1 /\ lpc = "peek" /\ conn # None

(***************************************************************************)
(* parse_addr on its own: the function applied to one message.  The        *)
(* messages are Binding Responses as a STUN server builds them (RFC 5389:  *)
(* every attribute is type, length of the value, the value, and padding    *)
(* of the value to a multiple of four bytes, which the length leaves out). *)
(***************************************************************************)
Padding(n) == Zeros((4 - (n % 4)) % 4)

Attribute(type, value) ==
    U16ToBe(type) \o U16ToBe(Len(value)) \o value \o Padding(Len(value))

\* SOFTWARE (0x8022) with a value of five bytes, MAPPED-ADDRESS (0x0001)
\* with its eight
PrecedingAttrs ==
    { Attribute(32802, <<115, 116, 117, 110, 100>>),
      Attribute(1, <<0, 1, 74, 188, 203, 0, 113, 7>>) }

Precedings == UNION { [1..n -> PrecedingAttrs] : n \in 0..MaxPreceding }

RECURSIVE Flatten(_)
Flatten(seqs) == IF seqs = << >> THEN << >> ELSE Head(seqs) \o Flatten(Tail(seqs))

ParseAddrs ==
    { P1, P2, Addr(<<0, 0, 0, 0>>, 0), Addr(<<255, 255, 255, 255>>, 65535),
      Addr(<<10, 0, 0, 1>>, 1000), Addr(<<33, 18, 164, 66>>, 8466),
      Addr(<<127, 0, 0, 1>>, 25565), Addr(<<223, 255, 110, 188>>, 49318) }

\* a Binding Response for address a whose XOR-MAPPED-ADDRESS comes after
\* the attributes pre
EncodedResponse(a, pre) ==
    StunHeader(Len(Flatten(pre)) + 12) \o Flatten(pre) \o XorMappedAttr(a)

\* scenario S1, byte by byte
ScenarioS1 ==
    <<1, 1, 0, 16, 33, 18, 164, 66,
      1, 2, 3, 4, 5, 6, 7, 8, 9, 10, 11, 12,
      0, 32, 0, 8, 0, 1, 225, 180, 254, 237, 202, 254>>

\* a message that ends with the four bytes of an XOR-MAPPED-ADDRESS
\* attribute header: the eight bytes of its value are cut off
CutOffResponse == StunHeader(4) \o <<0, 32, 0, 8>>

ParseInputs ==
    { EncodedResponse(a, pre) : a \in ParseAddrs, pre \in Precedings }
        \cup {ScenarioS1, NoAttrResponse, << >>}
        \cup {CutOffResponse, ResponseBuffer(TailAttrResponse),
              ResponseBuffer(BindingResponse(P1)), ResponseBuffer(<< >>)}

InitParse ==
    /\ InitWith({c \in Configs : /\ c.sub_domain = "mc" /\ ~c.keep_alive
                                /\ ~c.haproxy_support /\ c.haproxy_version = "V1"})
    /\ zone = [a |-> 0, srv |-> 0]
    /\ response \in ParseInputs

\* parse_addr(&response)
ParseAddr ==
    /\ parsed = None
    /\ parsed' = Some(parse_addr(response))
    /\ UNCHANGED << response, zone, sessVars, mainVars, stunVars, listenVars, hbVars,
                    stream, heartbeat >>

NextParse == ParseAddr

SpecParse == InitParse /\ [][NextParse]_vars

(***************************************************************************)
(* forward.rs: heartbeat_server on one connection, byte by byte.           *)
(* heartbeat.inbuf holds what the client has sent and the responder has    *)
(* not read; peek leaves the bytes it saw in it.                           *)
(*   "read"   awaiting stream.read(&mut buf)                               *)
(*   "write"  awaiting stream.write_all(b"hbre")                           *)
(*   "done"   left the loop                                                *)
(***************************************************************************)
\* what a heartbeat client sends: a request, or something else
ClientMessages == {HBPK, <<104, 98, 112, 120>>}

\* the client writes a message of four bytes
ClientSends(data) ==
    /\ Running /\ heartbeat.pc \in {"read", "write"}
    /\ ~heartbeat.eof /\ heartbeat.msgs < 1 + MaxProbes
    /\ heartbeat' = [heartbeat EXCEPT
                        !.inbuf = @ \o data,
                        !.msgs = @ + 1,
                        !.sent = IF data = HBPK THEN @ + 1 ELSE @]
    /\ UNCHANGED << zone, sessVars, parseVars, stream, mainVars, stunVars,
                    listenVars, hbVars >>

\* the client closes its side
ClientCloses ==
    /\ Running /\ heartbeat.pc \in {"read", "write"} /\ ~heartbeat.eof
    /\ heartbeat' = [heartbeat EXCEPT !.eof = TRUE]
    /\ UNCHANGED << zone, sessVars, parseVars, stream, mainVars, stunVars,
                    listenVars, hbVars >>

\* the responder has left its loop: the task is over
HeartbeatEnds(io_error) ==
    /\ responders' = responders - 1
    /\ hb_retry' = IF io_error THEN Bump(hb_retry) ELSE hb_retry

\* stream.read(&mut buf) returned Ok(n), n > 0: any n of the bytes that have
\* arrived, the buffer's length at most; if &buf[..n] == b"hbpk" the reply
\* is written next, otherwise a warning is logged and the loop goes on
HeartbeatRead(n) ==
    /\ Running /\ heartbeat.pc = "read"
    /\ n >= 1 /\ n <= Len(heartbeat.inbuf) /\ n <= HB_BUF_LEN
    /\ heartbeat' = [heartbeat EXCEPT
                        !.inbuf = SubSeq(@, n + 1, Len(@)),
                        !.pc = IF SubSeq(heartbeat.inbuf, 1, n) = HBPK
                               THEN "write" ELSE "read"]
    /\ UNCHANGED << zone, sessVars, parseVars, stream, mainVars, stunVars,
                    listenVars, hbVars >>

\* stream.write_all(b"hbre") returned Ok
HeartbeatWriteOk ==
    /\ Running /\ heartbeat.pc = "write"
    /\ heartbeat' = [heartbeat EXCEPT !.pc = "read", !.answered = @ + 1]
    /\ hb_retry' = 0
    /\ UNCHANGED << zone, sessVars, parseVars, stream, mainVars, stunVars,
                    listenVars, responders >>

\* write_all returned Err: break
HeartbeatWriteFail ==
    /\ Running /\ heartbeat.pc = "write"
    /\ heartbeat' = [heartbeat EXCEPT !.pc = "done"]
    /\ HeartbeatEnds(TRUE)
    /\ UNCHANGED << zone, sessVars, parseVars, stream, mainVars, stunVars,
                    listenVars >>

\* read returned Ok(0): the client has closed and nothing is left: break
HeartbeatEof ==
    /\ Running /\ heartbeat.pc = "read"
    /\ heartbeat.eof /\ heartbeat.inbuf = << >>
    /\ heartbeat' = [heartbeat EXCEPT !.pc = "done"]
    /\ HeartbeatEnds(FALSE)
    /\ UNCHANGED << zone, sessVars, parseVars, stream, mainVars, stunVars,
                    listenVars >>

\* read returned Err: break
HeartbeatReadErr ==
    /\ Running /\ heartbeat.pc = "read"
    /\ heartbeat' = [heartbeat EXCEPT !.pc = "done"]
    /\ HeartbeatEnds(TRUE)
    /\ UNCHANGED << zone, sessVars, parseVars, stream, mainVars, stunVars,
                    listenVars >>

\* forward.rs's accept loop has peeked "hbpk" on a connection from the WAN
\* address and spawned heartbeat_server: the four bytes are still unread
InitHeartbeat ==
    /\ config_file \in {c \in Configs : /\ c.sub_domain = "mc" /\ ~c.keep_alive
                                        /\ ~c.haproxy_support /\ c.haproxy_version = "V1"}
    /\ config = config_file
    /\ WAN_ADDR = Placeholder
    /\ spc = "sleep" /\ last_addr = Some(P1) /\ reconn = TRUE
    /\ cur = None /\ reqs = << >> /\ record_id = None /\ failed = None
    /\ zone = [a |-> 1, srv |-> 1]
    /\ mpc = "forward_listening" /\ lkind = "forward" /\ wan_host = V4(P1.ip)
    /\ lfam \in {"v4", "v6"}
    /\ lpc = "accept" /\ conn = None /\ accept_errs = 0 /\ forwards = 0
    /\ responders = 1 /\ hb_retry \in {0, 1}
    /\ sess = [i \in 1..MaxSessions |-> FreeSession]
    /\ last_err = NoErr
    /\ response = << >> /\ parsed = None
    /\ stream = [NoStream EXCEPT !.state = "shut", !.used = TRUE]
    /\ heartbeat = [NoHeartbeat EXCEPT !.pc = "read", !.inbuf = HBPK,
                                       !.msgs = 1, !.sent = 1]

NextHeartbeat ==
    \/ \E data \in ClientMessages : ClientSends(data)
    \/ ClientCloses
    \/ \E n \in 1..HB_BUF_LEN : HeartbeatRead(n)
    \/ HeartbeatWriteOk \/ HeartbeatWriteFail
    \/ HeartbeatEof \/ HeartbeatReadErr

SpecHeartbeat == InitHeartbeat /\ [][NextHeartbeat]_vars

(***************************************************************************)
(* Player sessions (forward.rs forward / forward_v2), under SpecForward.   *)
(***************************************************************************)
Slots == 1..MaxSessions

\* the value of a Some
The(opt) == CHOOSE x \in opt : TRUE

\* session i is over in this step
SessionEnds(i) == sess[i].pc # "free" /\ sess'[i].pc = "free"

\* C11: sessions are isolated: a step of one session (its failure or its
\* normal end included) changes no other session, and the end of a session
\* leaves the accept loop where it was: the listener keeps accepting, the
\* other sessions keep copying, and only the ended session's slot is freed.
C11_SessionIsolation ==
    [][ \A i \in Slots :
          /\ sess'[i] # sess[i] /\ sess[i].pc # "free"
                => \A j \in Slots \ {i} : sess'[j] = sess[j]
          /\ SessionEnds(i)
                => /\ lpc' = lpc /\ lkind' = lkind /\ conn' = conn
                   /\ accept_errs' = accept_errs
                   /\ forwards' = forwards - 1
                   /\ mpc' = mpc
      ]_vars

\* C11 witness: a session failed while another one was running, and a
\* session is copying client bytes with the listener at accept
C11_Witness ==
    /\ last_err.beside /\ lpc = "accept"
    /\ \E j \in Slots : sess[j].pc = "copy" /\ sess[j].up # << >>

\* what a session may have written upstream: with haproxy the header (the one
\* built from its two addresses) as the first write and client bytes after
\* it, without haproxy client bytes only
UpstreamInOrder(s) ==
    IF s.haproxy
    THEN /\ s.pc = "copy" => s.up # << >>
         /\ s.up # << >> =>
               /\ s.up[1].from = "header"
               /\ s.client_addr # None /\ s.server_local_addr # None
               /\ s.up[1].data = ProxyHeader(s.version, The(s.client_addr),
                                             The(s.server_local_addr))
               /\ \A k \in 2..Len(s.up) : s.up[k].from = "client"
    ELSE \A k \in 1..Len(s.up) : s.up[k].from = "client"

\* C12: with haproxy_support the PROXY header is the first thing written
\* upstream: no client byte is written before the whole header, copying
\* starts only after it, and a session whose header write fails ends having
\* written nothing at all.
C12_HeaderFirst ==
    [][ \A i \in Slots :
          /\ UpstreamInOrder(sess'[i])
          /\ SessHeaderWriteFail(i) => (sess[i].up = << >> /\ sess'[i] = FreeSession)
      ]_vars

\* C12 witness: a session with haproxy has written its header and then a
\* chunk of client bytes
C12_Witness ==
    \E i \in Slots :
        /\ sess[i].haproxy /\ Len(sess[i].up) >= 2
        /\ sess[i].up[1].from = "header" /\ sess[i].up[2].from = "client"

\* C13: with haproxy_support, a client address and an upstream local address
\* of two families end the session with an error before anything is written
\* upstream, for version 1 and version 2 alike.
C13_FamilyMismatchWritesNothing ==
    [][ \A i \in Slots : \A c \in ClientAddrs(lfam) : \A l \in LocalAddrs :
          (SessConnectOk(i, c, l) /\ sess[i].haproxy /\ c.ip.fam # l.ip.fam)
              => /\ sess[i].up = << >>
                 /\ sess'[i] = FreeSession
                 /\ last_err'.kind = "family"
                 /\ last_err'.version = sess[i].version
      ]_vars

\* C13 witness: a version 2 session has ended on addresses of two families
C13_Witness == last_err.kind = "family" /\ last_err.version = "V2"

\* the two bytes of a port, as the number they spell big-endian
PortOf(h, at) == h[at] * 256 + h[at + 1]

\* C19: the version 2 header is the 12 signature bytes, then 21 11 00 0C and
\* source address, destination address, source port, destination port for
\* IPv4 (28 bytes), or 21 21 00 24 and the same fields for IPv6 (52 bytes),
\* ports big-endian; from 10.0.0.1:1000 to 10.0.0.2:2000 it is
\* 0D0A0D0A000D0A515549540A 2111000C 0A000001 0A000002 03E8 07D0.
C19_ProxyV2HeaderBytes ==
    \A i \in Slots :
        (sess[i].haproxy /\ sess[i].version = "V2" /\ sess[i].up # << >>) =>
            LET h   == sess[i].up[1].data
                src == The(sess[i].client_addr)
                dst == The(sess[i].server_local_addr)
            IN  /\ SubSeq(h, 1, 12) = <<13, 10, 13, 10, 0, 13, 10, 81, 85, 73, 84, 10>>
                /\ src.ip.fam = "v4" =>
                      /\ Len(h) = 28
                      /\ SubSeq(h, 13, 16) = <<33, 17, 0, 12>>
                      /\ SubSeq(h, 17, 20) = src.ip.val
                      /\ SubSeq(h, 21, 24) = dst.ip.val
                      /\ PortOf(h, 25) = src.port /\ PortOf(h, 27) = dst.port
                /\ src.ip.fam = "v6" =>
                      /\ Len(h) = 52
                      /\ SubSeq(h, 13, 16) = <<33, 33, 0, 36>>
                      /\ \A g \in 1..8 :
                            /\ PortOf(h, 15 + 2 * g) = src.ip.val[g]
                            /\ PortOf(h, 31 + 2 * g) = dst.ip.val[g]
                      /\ PortOf(h, 49) = src.port /\ PortOf(h, 51) = dst.port
                /\ (src = SocketAddr(V4(<<10, 0, 0, 1>>), 1000)
                      /\ dst = SocketAddr(V4(<<10, 0, 0, 2>>), 2000)) =>
                      h = <<13, 10, 13, 10, 0, 13, 10, 81, 85, 73, 84, 10,
                            33, 17, 0, 12, 10, 0, 0, 1, 10, 0, 0, 2,
                            3, 232, 7, 208>>

\* C19 witness: a version 2 session has written the header of the example,
\* and another one an IPv6 header
C19_Witness ==
    \E i \in Slots :
        /\ sess[i].haproxy /\ sess[i].version = "V2" /\ sess[i].up # << >>
        /\ sess[i].client_addr = Some(SocketAddr(V4(<<10, 0, 0, 1>>), 1000))
        /\ Len(sess[i].up[1].data) = 28

(***************************************************************************)
(* parse_addr, under SpecParse.                                            *)
(***************************************************************************)
\* C14: round trip: a Binding Response whose XOR-MAPPED-ADDRESS carries
\* (p XOR 0x2112) and (ip XOR 0x2112A442) is parsed to exactly ip:p, also
\* when other attributes precede the XOR-MAPPED-ADDRESS attribute.
C14_RoundTrip ==
    \A a \in ParseAddrs : \A pre \in Precedings :
        (response = EncodedResponse(a, pre) /\ parsed # None)
            => parsed = Some(ParseOk(a.ip, a.port))

\* C15 as the scenario states it: S1 is parsed to 127.255.110.188:49318.
C15_S1AsStated ==
    (response = ScenarioS1 /\ parsed # None)
        => parsed = Some(ParseOk(<<127, 255, 110, 188>>, 49318))

\* C15: scenario S1 is parsed to 223.255.110.188:49318 (FE XOR 21 is DF,
\* 223; the port E1B4 XOR 2112 is C0A6, 49318).
C15_S1Parsed ==
    (response = ScenarioS1 /\ parsed # None)
        => parsed = Some(ParseOk(<<223, 255, 110, 188>>, 49318))

\* C15 witness: parse_addr has returned Ok for the buffer of S1
C15_Witness ==
    /\ response = ScenarioS1 /\ parsed # None
    /\ \A r \in parsed : r.kind = "ok"

(***************************************************************************)
(* update_srv and its caller, under SpecMaintainer.                        *)
(***************************************************************************)
\* the update_srv call of this iteration has returned Ok
CallSucceeded ==
    /\ spc = "post" /\ reqs # << >>
    /\ reqs[Len(reqs)].rectype = "SRV"
    /\ IsUpsert(reqs[Len(reqs)])
    /\ reqs[Len(reqs)].out = "2xx"

\* C16: publishing is idempotent: from a zone that holds the A record and
\* the SRV record or lacks them, a successful update_srv call leaves exactly
\* one A record and exactly one SRV record at their names, and so does every
\* successful call after it: no call adds a record to one that exists.
C16_IdempotentPublish == CallSucceeded => zone = [a |-> 1, srv |-> 1]

\* C17: a non-2xx response to any request of update_srv (zone lookup,
\* record search, PATCH or POST) makes update_srv return an error, and it is
\* the last request of that call; a non-2xx answer to the record search is
\* not taken for an absent record and followed by a POST.
C17_Non2xxEndsCall ==
    \A k \in 1..Len(reqs) :
        reqs[k].out = "non2xx" => (k = Len(reqs) /\ spc = "post" /\ failed = cur)

\* C18: the startup path is fatal: when the first publish has failed (no
\* publish has succeeded yet) the process has exited, it does not go on
\* running; and a configuration that cannot be loaded ends the process.
C18_StartupFatal ==
    /\ (last_addr = None /\ failed # None) => mpc = "exited"
    /\ (last_addr = None /\ spc = "err_sleep") => mpc = "exited"

\* C20: the maintainer calls update_srv exactly when the address parsed from
\* the response differs from last_addr, never when it is equal, and once in
\* an iteration at most; last_addr is assigned only by the step in which an
\* update_srv call returns Ok, to the address of that call, and every such
\* step assigns it.
C20_PublishExactlyOnChange ==
    [][ /\ \A data \in Responses :
              (StunReadResponse(data) /\ ParsedResponses[data].kind = "ok")
                 => LET addr == Addr(ParsedResponses[data].ip,
                                     ParsedResponses[data].port)
                    IN  /\ (Some(addr) # last_addr) => (spc' = "zone" /\ cur' = Some(addr))
                        /\ (Some(addr) = last_addr) => (spc' = "post" /\ reqs' = << >>)
        /\ (spc' = "zone" /\ spc # "zone") => (spc = "read" /\ reqs = << >>)
        /\ spc \in DdnsStates => spc' \in DdnsStates \cup {"post"}
        /\ spc = "post" => spc' \in {"post", "sleep", "err_sleep"}
        /\ last_addr' # last_addr => (ReturnsOk /\ cur # None /\ last_addr' = cur)
        /\ ReturnsOk => last_addr' = cur
      ]_vars

\* C20 witness: the address measured is the one last published, and the
\* iteration goes on without a call of update_srv
C20_Witness == spc = "post" /\ cur # None /\ cur = last_addr /\ reqs = << >>

\* C21: every player session is forwarded with the configured PROXY
\* version: with haproxy_support the header a session writes upstream is the
\* version 2 header when haproxy_version is V2 and the version 1 line when
\* it is V1, whichever listener accepted the connection; without
\* haproxy_support no header is written.
C21_ConfiguredProxyVersion ==
    \A i \in Slots :
        sess[i].pc # "free" =>
            IF config.haproxy_support
            THEN sess[i].up # << >> =>
                    sess[i].up[1] =
                        Written("header",
                                ProxyHeader(config.haproxy_version,
                                            The(sess[i].client_addr),
                                            The(sess[i].server_local_addr)))
            ELSE \A k \in 1..Len(sess[i].up) : sess[i].up[k].from = "client"

\* C24: parse_addr never reads outside its buffer: for every buffer, one
\* that ends inside an XOR-MAPPED-ADDRESS attribute and the maintainer's
\* 1024-byte response buffer included, it returns an address or an error
\* value; it never panics.
C24_ParseNeverPanics == \A r \in parsed : r.kind \in {"ok", "err"}

\* the accept loop takes a connection now
AcceptAny == \E peer \in Peers(lfam) : \E data \in FirstBytes : Accept(peer, data)

\* C25: the accept loop is never blocked by a single connection: while a
\* connection from the WAN address has been accepted and has sent nothing
\* (and has not closed), a connection that arrives is still accepted: with
\* room for another task the loop can always take it.
C25_AcceptNeverBlocked ==
    (/\ lpc = "accept" \/ (lpc = "peek" /\ \A c \in conn : c.data = << >>)
     /\ forwards + responders < MaxSessions)
        => ENABLED AcceptAny

(***************************************************************************)
(* stun_loop's stream, under SpecMaintainer.                               *)
(***************************************************************************)
\* the maintainer writes (or fails to write) a Binding Request in this step
WritesRequest == spc = "write" /\ spc' # "write"

\* the iteration ends without an error in this step
IterationSucceeds == spc = "post" /\ spc' = "sleep"

\* C23: with keep_alive off every successful iteration shuts the stream down
\* and sets reconn, so every request is written to a stream no request was
\* written to before; with keep_alive on the stream is kept and written to
\* again, and replaced only after an error; in both modes a Binding Request
\* is never written to a stream on which a step has failed or that was shut
\* down.
C23_StreamPerRequest ==
    [][ /\ WritesRequest => stream.state = "open"
        /\ (WritesRequest /\ ~config.keep_alive) => ~stream.used
        /\ (IterationSucceeds /\ ~config.keep_alive)
              => (stream'.state = "shut" /\ reconn')
        /\ (IterationSucceeds /\ config.keep_alive)
              => (stream' = stream /\ ~reconn')
        /\ (spc = "iter" /\ spc' = "write" /\ ~reconn) => stream' = stream
        /\ (stream'.state = "open" /\ stream.state = "open" /\ stream' # stream)
              => (spc = "write" \/ (reconn /\ spc = "iter"))
      ]_vars

\* C23 witness: keep_alive is off, an iteration has succeeded before, and
\* the next request is about to be written to a stream that is new
C23_Witness ==
    /\ ~config.keep_alive /\ last_addr # None
    /\ spc = "write" /\ stream = OpenStream

(***************************************************************************)
(* heartbeat_server, under SpecHeartbeat.                                  *)
(***************************************************************************)
\* C22: the responder writes exactly one "hbre" for every "hbpk" request
\* the client sends (the peeked first one included, and however the
\* requests are cut into reads), and for nothing else: it has never written
\* more replies than requests were sent, and when it has read all that was
\* sent and waits for more, it has written one reply for each request.
C22_OneReplyPerRequest ==
    /\ heartbeat.answered <= heartbeat.sent
    /\ (heartbeat.pc = "read" /\ heartbeat.inbuf = << >>)
          => heartbeat.answered = heartbeat.sent

=============================================================================
